---- MODULE Spec2Model ----
(***************************************************************************)
(* Model of the eSvitlo/ical core:                                         *)
(*   - the Browser pool of src/app/providers/__init__.py (one supervisor   *)
(*     task running Browser.run, callers of Browser.execute, the idle      *)
(*     timer tasks created by Browser.schedule_restart, Browser.shutdown); *)
(*   - the schedule normalisation of src/app/providers/yasno.py;          *)
(*   - the schedule scraping and reduction of src/app/providers/dtek.py.   *)
(*                                                                         *)
(* The pool is an asyncio program: a coroutine runs atomically between two *)
(* awaits, so every action below is the code between two suspension points *)
(* of one task.  asyncio.Queue, asyncio.Lock and asyncio.Future follow the *)
(* CPython implementation (FIFO lock waiters, QueueShutDown, the ValueError*)
(* of task_done(), the InvalidStateError of a second set_result).          *)
(***************************************************************************)
EXTENDS Integers, Sequences, FiniteSets, TLC

\* Number of jobs ever constructed by callers.
MaxJobs == 3
\* Browser(max_requests=...) is drawn from 1..MaxRequestsBound.
MaxRequestsBound == 2

Jobs == 1..MaxJobs
\* Identity of the supervisor task in the lock; timer tasks use job ids.
WorkerId == MaxJobs + 1

VARIABLES
    max_requests,   \* Browser.max_requests
    jstate,         \* per job: "new" | "accepted" | "rejected" (Browser.execute)
    future,         \* per job: state of BrowserJobBase._future
    queue,          \* Browser._task_queue items
    is_shutdown,    \* Queue._is_shutdown
    unfinished,     \* Queue._unfinished_tasks
    joinState,      \* position of Browser.shutdown: "idle" | "joining" | "returned"
    pc,             \* position of the supervisor task in run/_run
    cur,            \* the job held by _run (0: none)
    exc,            \* exception pending in the body of the job's try block
    exitKind,       \* how _run was left: "none" | "break" | "error" | "cancelled" | "shutdown"
    ended,          \* how run() ended: "no" | "cancelled" | "shutdown" | "error"
    _browser,       \* Browser._browser (0: None, else the handle id)
    hstate,         \* per handle: "none" | "open" | "disconnected" | "closed"
    _requests,      \* Browser._requests
    served,         \* per handle: number of jobs that acquired it (history)
    _restart_task,  \* Browser._restart_task (0: None, else the timer id)
    timer,          \* per timer task: position in Browser._restart
    timerBrowser,   \* per timer task: the `browser` argument of _restart
    lockHolder,     \* Browser._browser_lock owner (0: free)
    lockWaiters,    \* Browser._browser_lock FIFO waiters
    idled,          \* handles whose idle timer has expired (history)
    groups,         \* planned_outages: the `groups` dict, Group -> Slot list
    group_id,       \* planned_outages: the key of result.items() in turn
    visited,        \* planned_outages: the keys of result already iterated
    ndays,          \* planned_outages: number of days processed so far
    day,            \* planned_outages: the Day validated last for group_id
    ystate,         \* planned_outages: "loop" | "returned" | "raised"
    slots_sorted,   \* every Day so far had its slots in order, none overlapping (history)
    dates_ascending, \* the days of every group so far came with increasing dates (history)
    groups_nw,      \* planned_outages on the same payload without its waiting days: groups
    raised_nw,      \* planned_outages on the same payload without its waiting days: it raised
    page,           \* the DTEK page the job scrapes: emergency text, DisconSchedule.fact
    today,          \* date.today() when DtekShutdownBase.planned_outages runs
    dpc,            \* position of DtekShutdownBase.planned_outages
    got,            \* what `await self._get()` returns or raises
    fact_read,      \* page.evaluate(EVALUATE_FUNCTION) was called (history)
    outages,        \* the mapping returned by DtekShutdownBase.planned_outages
    rpc,            \* position of one call of _parse_group or of the joins of one group
    parse_dt,       \* _parse_group: dt, in minutes
    parse_data,     \* _parse_group: data.items(), in the order of the dict
    parse_slots,    \* _parse_group: the list returned
    join_a,         \* planned_outages: the slots of a group parsed first
    join_b,         \* planned_outages: the slots of the group parsed next
    join_res,       \* slots[group] after the first _join_slots
    join_out        \* slots[group] after _join_slots(slots[group] + the next slots)

poolVars == <<max_requests, jstate, future, queue, is_shutdown, unfinished,
              joinState, pc, cur, exc, exitKind, ended, _browser, hstate,
              _requests, served, _restart_task, timer, timerBrowser,
              lockHolder, lockWaiters, idled>>

yasnoVars == <<groups, group_id, visited, ndays, day, ystate,
               slots_sorted, dates_ascending, groups_nw, raised_nw>>

reduceVars == <<rpc, parse_dt, parse_data, parse_slots, join_a, join_b,
                join_res, join_out>>

dtekVars == <<page, today, dpc, got, fact_read, outages, reduceVars>>

vars == <<poolVars, yasnoVars, dtekVars>>

----------------------------------------------------------------------------
(* Helpers                                                                 *)

RemoveFrom(s, x) == SelectSeq(s, LAMBDA y : y # x)

InSeq(s, x) == \E i \in 1..Len(s) : s[i] = x

\* Browser.__init__
PoolInit ==
    /\ max_requests \in 1..MaxRequestsBound
    /\ jstate = [j \in Jobs |-> "new"]
    /\ future = [j \in Jobs |-> "pending"]
    /\ queue = <<>>
    /\ is_shutdown = FALSE
    /\ unfinished = 0
    /\ joinState = "idle"
    /\ pc = "start"
    /\ cur = 0
    /\ exc = "none"
    /\ exitKind = "none"
    /\ ended = "no"
    /\ _browser = 0
    /\ hstate = [h \in Jobs |-> "none"]
    /\ _requests = 0
    /\ served = [h \in Jobs |-> 0]
    /\ _restart_task = 0
    /\ timer = [t \in Jobs |-> "none"]
    /\ timerBrowser = [t \in Jobs |-> 0]
    /\ lockHolder = 0
    /\ lockWaiters = <<>>
    /\ idled = {}

----------------------------------------------------------------------------
(* Callers: Browser.execute and Browser.shutdown                           *)

\* Mutant of Execute: put_nowait() without the shutdown test.
Execute_NoShutdownTest(j) ==
    /\ jstate[j] = "new"
    /\ \A i \in Jobs : i < j => jstate[i] # "new"
    /\ jstate' = [jstate EXCEPT ![j] = "accepted"]
    /\ queue' = Append(queue, j)
    /\ unfinished' = unfinished + 1
    /\ UNCHANGED <<yasnoVars, dtekVars, idled, max_requests, future, is_shutdown,
                   joinState, pc, cur, exc, exitKind, ended, _browser, hstate,
                   _requests, served, _restart_task, timer, timerBrowser,
                   lockHolder, lockWaiters>>

\* Browser.execute up to its first suspension: Queue.put_nowait(job) raises
\* QueueShutDown once the queue is shut down, else appends the job and
\* counts it as unfinished; the caller then awaits the job's future.
\* Jobs are numbered in the order of their execute() calls.
Execute(j) ==
    /\ jstate[j] = "new"
    /\ \A i \in Jobs : i < j => jstate[i] # "new"
    /\ IF is_shutdown
         THEN /\ jstate' = [jstate EXCEPT ![j] = "rejected"]
              /\ UNCHANGED <<queue, unfinished>>
         ELSE /\ jstate' = [jstate EXCEPT ![j] = "accepted"]
              /\ queue' = Append(queue, j)
              /\ unfinished' = unfinished + 1
    /\ UNCHANGED <<yasnoVars, dtekVars, idled, max_requests, future, is_shutdown, joinState, pc, cur, exc,
                   exitKind, ended, _browser, hstate, _requests, served,
                   _restart_task, timer, timerBrowser, lockHolder, lockWaiters>>

\* Mutant of CallerCancel: the cancelled caller takes its job back out of
\* the queue.
CallerCancel_Dequeues(j) ==
    /\ jstate[j] = "accepted"
    /\ future[j] = "pending"
    /\ future' = [future EXCEPT ![j] = "cancelled"]
    /\ queue' = RemoveFrom(queue, j)
    /\ unfinished' = IF InSeq(queue, j) THEN unfinished - 1 ELSE unfinished
    /\ UNCHANGED <<yasnoVars, dtekVars, idled, max_requests, jstate, is_shutdown,
                   joinState, pc, cur, exc, exitKind, ended, _browser, hstate,
                   _requests, served, _restart_task, timer, timerBrowser,
                   lockHolder, lockWaiters>>

\* The caller's `await job` is cancelled (a deadline around execute, a
\* dropped request): the task cancels the future it waits on.  Nothing in
\* execute() touches the queue.
CallerCancel(j) ==
    /\ jstate[j] = "accepted"
    /\ future[j] = "pending"
    /\ future' = [future EXCEPT ![j] = "cancelled"]
    /\ UNCHANGED <<yasnoVars, dtekVars, idled, max_requests, jstate, queue, is_shutdown, unfinished,
                   joinState, pc, cur, exc, exitKind, ended, _browser, hstate,
                   _requests, served, _restart_task, timer, timerBrowser,
                   lockHolder, lockWaiters>>

\* Browser.shutdown up to its suspension: Queue.shutdown() sets the flag;
\* Queue.join() returns at once when nothing is unfinished.
ShutdownCall ==
    /\ joinState = "idle"
    /\ is_shutdown' = TRUE
    /\ joinState' = IF unfinished = 0 THEN "returned" ELSE "joining"
    /\ UNCHANGED <<yasnoVars, dtekVars, idled, max_requests, jstate, future, queue, unfinished, pc, cur,
                   exc, exitKind, ended, _browser, hstate, _requests, served,
                   _restart_task, timer, timerBrowser, lockHolder, lockWaiters>>

\* Browser.shutdown resumes: Queue.join() returns when every accepted job
\* has been marked done.
ShutdownReturn ==
    /\ joinState = "joining"
    /\ unfinished = 0
    /\ joinState' = "returned"
    /\ UNCHANGED <<yasnoVars, dtekVars, idled, max_requests, jstate, future, queue, is_shutdown,
                   unfinished, pc, cur, exc, exitKind, ended, _browser, hstate,
                   _requests, served, _restart_task, timer, timerBrowser,
                   lockHolder, lockWaiters>>

\* The browser process dies or drops its connection: is_connected() of the
\* handle turns false.
Disconnect ==
    /\ _browser # 0
    /\ hstate[_browser] = "open"
    /\ hstate' = [hstate EXCEPT ![_browser] = "disconnected"]
    /\ UNCHANGED <<yasnoVars, dtekVars, idled, max_requests, jstate, future, queue, is_shutdown,
                   unfinished, joinState, pc, cur, exc, exitKind, ended,
                   _browser, _requests, served, _restart_task, timer,
                   timerBrowser, lockHolder, lockWaiters>>

----------------------------------------------------------------------------
(* The idle timer: Browser.schedule_restart and Browser._restart           *)

\* Task.cancel() on a timer task: a task suspended in sleep() or in
\* Lock.acquire() ends with CancelledError; one suspended in
\* self._browser.close() leaves the `async with` without clearing _browser;
\* a finished task is unaffected.
Cancelled(tm, t) ==
    IF t # 0 /\ tm[t] \in {"sleeping", "waiting", "closing"}
      THEN [tm EXCEPT ![t] = "cancelled"]
      ELSE tm

\* Mutant of ScheduleRestart: the new timer is created without cancelling
\* the one before.
ScheduleRestart_NoCancel(j, b) ==
    /\ timer' = [timer EXCEPT ![j] = "sleeping"]
    /\ UNCHANGED lockWaiters
    /\ _restart_task' = j
    /\ timerBrowser' = [timerBrowser EXCEPT ![j] = b]

\* Browser.schedule_restart, called for job j inside Browser.browser with
\* b = self._browser: cancel the previous timer task, create a new one
\* (named after the job).
ScheduleRestart(j, b) ==
    /\ timer' = [Cancelled(timer, _restart_task) EXCEPT ![j] = "sleeping"]
    /\ lockWaiters' = RemoveFrom(lockWaiters, _restart_task)
    /\ _restart_task' = j
    /\ timerBrowser' = [timerBrowser EXCEPT ![j] = b]

\* Mutant of TimerExpire: _restart goes on to close the handle without
\* taking the lock.
TimerExpire_NoLock(t) ==
    /\ timer[t] = "sleeping"
    /\ timer' = [timer EXCEPT ![t] = "closing"]
    /\ idled' = idled \cup {timerBrowser[t]}
    /\ UNCHANGED <<yasnoVars, dtekVars, max_requests, jstate, future, queue, is_shutdown,
                   unfinished, joinState, pc, cur, exc, exitKind, ended,
                   _browser, hstate, _requests, served, _restart_task,
                   timerBrowser, lockHolder, lockWaiters>>

\* Browser._restart: sleep(max_inactivity) returns and the task enters
\* `async with self._browser_lock` (taken at once when free, else queued).
TimerExpire(t) ==
    /\ timer[t] = "sleeping"
    /\ IF lockHolder = 0
         THEN /\ lockHolder' = t
              /\ timer' = [timer EXCEPT ![t] = "closing"]
              /\ UNCHANGED lockWaiters
         ELSE /\ lockWaiters' = Append(lockWaiters, t)
              /\ timer' = [timer EXCEPT ![t] = "waiting"]
              /\ UNCHANGED lockHolder
    /\ idled' = idled \cup {timerBrowser[t]}
    /\ UNCHANGED <<yasnoVars, dtekVars, max_requests, jstate, future, queue, is_shutdown,
                   unfinished, joinState, pc, cur, exc, exitKind, ended,
                   _browser, hstate, _requests, served, _restart_task,
                   timerBrowser>>

\* Mutant of TimerClose: the handle is closed but self._browser is not
\* cleared.
TimerClose_NoClear(t) ==
    /\ timer[t] = "closing"
    /\ IF _browser = timerBrowser[t]
         THEN hstate' = [hstate EXCEPT ![_browser] = "closed"]
         ELSE UNCHANGED hstate
    /\ timer' = [timer EXCEPT ![t] = "done"]
    /\ IF lockWaiters = <<>>
         THEN /\ lockHolder' = 0
              /\ UNCHANGED <<lockWaiters, pc>>
         ELSE /\ lockHolder' = Head(lockWaiters)
              /\ lockWaiters' = Tail(lockWaiters)
              /\ pc' = "browser"
    /\ UNCHANGED <<yasnoVars, dtekVars, idled, max_requests, jstate, future, queue,
                   is_shutdown, unfinished, joinState, cur, exc, exitKind,
                   ended, _browser, _requests, served, _restart_task,
                   timerBrowser>>

\* Browser._restart under the lock: close and clear the handle if it is
\* still the one the timer was created for; then release the lock, which
\* wakes the first waiter (only the supervisor task can be waiting).
TimerClose(t) ==
    /\ timer[t] = "closing"
    /\ IF _browser = timerBrowser[t]
         THEN /\ hstate' = [hstate EXCEPT ![_browser] = "closed"]
              /\ _browser' = 0
         ELSE UNCHANGED <<hstate, _browser>>
    /\ timer' = [timer EXCEPT ![t] = "done"]
    /\ IF lockWaiters = <<>>
         THEN /\ lockHolder' = 0
              /\ UNCHANGED <<lockWaiters, pc>>
         ELSE /\ lockHolder' = Head(lockWaiters)
              /\ lockWaiters' = Tail(lockWaiters)
              /\ pc' = "browser"
    /\ UNCHANGED <<yasnoVars, dtekVars, idled, max_requests, jstate, future, queue, is_shutdown,
                   unfinished, joinState, cur, exc, exitKind, ended,
                   _requests, served, _restart_task, timerBrowser>>

----------------------------------------------------------------------------
(* The supervisor task: Browser.run, Browser._run, Browser.browser         *)

\* Positions of _run at which the job holds the lock and operates on the
\* handle (from Browser.browser to the close of the per-job context).
UsePcs == {"browser", "launch", "page", "goto", "action", "closing"}

\* Mutant of ExitRun: run() goes on to its teardown without cancelling the
\* pending timer task.
ExitRun_NoCancel(kind) ==
    /\ exitKind' = kind
    /\ pc' = "teardown"
    /\ UNCHANGED timer
    /\ lockHolder' = 0
    /\ lockWaiters' = <<>>

\* _run is left (by break, by an exception or by cancellation) and run()
\* reaches its `finally`: the pending timer task is cancelled.  All of this
\* runs without suspension, so a timer woken by the lock release has not
\* run yet and is cancelled as well; no task is left in the lock.
ExitRun(kind) ==
    /\ exitKind' = kind
    /\ pc' = "teardown"
    /\ timer' = Cancelled(timer, _restart_task)
    /\ lockHolder' = 0
    /\ lockWaiters' = <<>>

\* Mutant of ReleaseAndLoop: the lock is released without waking the task
\* that waits for it.
ReleaseAndLoop_NoHandoff ==
    /\ pc' = "get"
    /\ UNCHANGED exitKind
    /\ lockHolder' = 0
    /\ UNCHANGED <<lockWaiters, timer>>

\* `async with self._browser_lock` is left by the job: Lock.release() wakes
\* the first waiter (only the pending timer task can be waiting), and _run
\* goes back to `await self._task_queue.get()`.
ReleaseAndLoop ==
    /\ pc' = "get"
    /\ UNCHANGED exitKind
    /\ IF lockWaiters = <<>>
         THEN /\ lockHolder' = 0
              /\ UNCHANGED <<lockWaiters, timer>>
         ELSE /\ lockHolder' = Head(lockWaiters)
              /\ lockWaiters' = Tail(lockWaiters)
              /\ timer' = [timer EXCEPT ![Head(lockWaiters)] = "closing"]

\* The exceptions a job's try block can end with that are PlaywrightError:
\* "pw" (the handle or the driver failed) and "timeout" (TimeoutError, a
\* subclass: job.execute waited in vain for the page's signature).
Fatal == {"pw", "timeout"}

\* Those that are another Exception: "status" (ConnectionError for a
\* response that is not ok), "exc" (raised by job.execute), "invalid"
\* (InvalidStateError of job.result = result on a settled future).
Local == {"status", "exc", "invalid"}

\* The exit of the job's try statement in _run with exception e pending
\* ("none", a member of Fatal or of Local, "cancel": CancelledError): the
\* except clauses write job.exception, which raises
\* InvalidStateError out of the handler when the future is already settled
\* or cancelled; the finally clause counts the request and marks the job
\* done; then the loop continues or _run is left.
FinishJob(e) ==
    LET writeOk == future[cur] = "pending"
        kind == CASE e = "none"   -> "none"
                  [] e = "cancel" -> "cancelled"
                  [] e \in Fatal  -> IF writeOk THEN "break" ELSE "error"
                  [] e \in Local  -> IF writeOk THEN "none" ELSE "error"
    IN  /\ future' = IF e \in Fatal \cup Local /\ writeOk
                       THEN [future EXCEPT ![cur] = "exception"]
                       ELSE future
        /\ _requests' = _requests + 1
        /\ unfinished' = unfinished - 1
        /\ cur' = 0
        /\ exc' = "none"
        /\ IF kind = "none" THEN ReleaseAndLoop ELSE ExitRun(kind)

\* run(): `playwright = await async_playwright().start()` succeeds and
\* _run starts waiting on the queue.
StartOk ==
    /\ pc = "start"
    /\ pc' = "get"
    /\ UNCHANGED <<yasnoVars, dtekVars, idled, max_requests, jstate, future, queue, is_shutdown,
                   unfinished, joinState, cur, exc, exitKind, ended, _browser, hstate,
                   _requests, served, _restart_task, timer, timerBrowser,
                   lockHolder, lockWaiters>>

\* run(): start() raises; the call is outside the try statement, so the
\* exception leaves run().
StartFail ==
    /\ pc = "start"
    /\ pc' = "ended"
    /\ ended' = "error"
    /\ UNCHANGED <<yasnoVars, dtekVars, idled, max_requests, jstate, future, queue, is_shutdown,
                   unfinished, joinState, cur, exc, exitKind, _browser, hstate,
                   _requests, served, _restart_task, timer, timerBrowser,
                   lockHolder, lockWaiters>>

\* Mutant of BrowserCheckBody: the recycle test uses > in place of >=.
BrowserCheckBody_OffByOne(j) ==
    IF _browser # 0 /\ (hstate[_browser] # "open" \/ _requests > max_requests)
      THEN /\ hstate' = [hstate EXCEPT ![_browser] = "closed"]
           /\ _browser' = 0
           /\ pc' = "launch"
           /\ UNCHANGED <<served, _restart_task, timer, timerBrowser,
                          lockWaiters>>
      ELSE IF _browser = 0
        THEN /\ pc' = "launch"
             /\ UNCHANGED <<hstate, _browser, served, _restart_task, timer,
                            timerBrowser, lockWaiters>>
        ELSE /\ ScheduleRestart(j, _browser)
             /\ served' = [served EXCEPT ![_browser] = @ + 1]
             /\ pc' = "page"
             /\ UNCHANGED <<hstate, _browser>>

\* Mutant of BrowserCheckBody: the recycle test looks at the request count
\* only, not at is_connected().
BrowserCheckBody_NoConnectedTest(j) ==
    IF _browser # 0 /\ _requests >= max_requests
      THEN /\ hstate' = [hstate EXCEPT ![_browser] = "closed"]
           /\ _browser' = 0
           /\ pc' = "launch"
           /\ UNCHANGED <<served, _restart_task, timer, timerBrowser,
                          lockWaiters>>
      ELSE IF _browser = 0
        THEN /\ pc' = "launch"
             /\ UNCHANGED <<hstate, _browser, served, _restart_task, timer,
                            timerBrowser, lockWaiters>>
        ELSE /\ ScheduleRestart(j, _browser)
             /\ served' = [served EXCEPT ![_browser] = @ + 1]
             /\ pc' = "page"
             /\ UNCHANGED <<hstate, _browser>>

\* Browser.browser for job j, up to its first suspension: the recycle
\* test; a disconnected or worn handle is closed (errors suppressed) and
\* cleared, and a missing handle has to be launched.  With a usable handle
\* browser() returns without suspension after schedule_restart().
BrowserCheckBody(j) ==
    IF _browser # 0 /\ (hstate[_browser] # "open" \/ _requests >= max_requests)
      THEN /\ hstate' = [hstate EXCEPT ![_browser] = "closed"]
           /\ _browser' = 0
           /\ pc' = "launch"
           /\ UNCHANGED <<served, _restart_task, timer, timerBrowser,
                          lockWaiters>>
      ELSE IF _browser = 0
        THEN /\ pc' = "launch"
             /\ UNCHANGED <<hstate, _browser, served, _restart_task, timer,
                            timerBrowser, lockWaiters>>
        ELSE /\ ScheduleRestart(j, _browser)
             /\ served' = [served EXCEPT ![_browser] = @ + 1]
             /\ pc' = "page"
             /\ UNCHANGED <<hstate, _browser>>

\* _run: `job = await self._task_queue.get()` returns the head of the queue
\* and the job enters `async with self._browser_lock`.  A free lock is
\* taken without suspension and Browser.browser starts at once; else the
\* task queues behind the timer that holds the lock.
GetJob ==
    /\ pc = "get"
    /\ queue # <<>>
    /\ cur' = Head(queue)
    /\ queue' = Tail(queue)
    /\ IF lockHolder = 0
         THEN /\ lockHolder' = WorkerId
              /\ BrowserCheckBody(Head(queue))
         ELSE /\ lockWaiters' = Append(lockWaiters, WorkerId)
              /\ pc' = "lock"
              /\ UNCHANGED <<lockHolder, hstate, _browser, served,
                             _restart_task, timer, timerBrowser>>
    /\ UNCHANGED <<yasnoVars, dtekVars, idled, max_requests, jstate, future, is_shutdown, unfinished,
                   joinState, exc, exitKind, ended, _requests>>

\* _run: get() raises QueueShutDown (queue shut down and empty); the
\* handler calls task_done(), which raises ValueError when no task is
\* unfinished, and otherwise raises CancelledError.
GetShutDown ==
    /\ pc = "get"
    /\ queue = <<>>
    /\ is_shutdown
    /\ IF unfinished > 0
         THEN /\ unfinished' = unfinished - 1
              /\ ExitRun("shutdown")
         ELSE /\ UNCHANGED unfinished
              /\ ExitRun("error")
    /\ UNCHANGED <<yasnoVars, dtekVars, idled, max_requests, jstate, future, queue, is_shutdown,
                   joinState, cur, exc, ended, _browser, hstate, _requests,
                   served, _restart_task, timerBrowser>>

\* The job was handed the lock by the timer task that held it:
\* Browser.browser starts.
BrowserCheck ==
    /\ pc = "browser"
    /\ BrowserCheckBody(cur)
    /\ UNCHANGED <<yasnoVars, dtekVars, idled, max_requests, jstate, future, queue, is_shutdown,
                   unfinished, joinState, cur, exc, exitKind, ended,
                   _requests, lockHolder>>

\* Browser.browser resumes: chromium.launch() returns a new handle
\* (named after the job that launched it), the request count is reset and
\* the idle timer is scheduled.
LaunchOk ==
    /\ pc = "launch"
    /\ _browser' = cur
    /\ hstate' = [hstate EXCEPT ![cur] = "open"]
    /\ _requests' = 0
    /\ served' = [served EXCEPT ![cur] = 1]
    /\ ScheduleRestart(cur, cur)
    /\ pc' = "page"
    /\ UNCHANGED <<yasnoVars, dtekVars, idled, max_requests, jstate, future, queue, is_shutdown,
                   unfinished, joinState, cur, exc, exitKind, ended,
                   lockHolder>>

\* chromium.launch() raises PlaywrightError.
LaunchFail ==
    /\ pc = "launch"
    /\ FinishJob("pw")
    /\ UNCHANGED <<yasnoVars, dtekVars, idled, max_requests, jstate, queue, is_shutdown, joinState, ended,
                   _browser, hstate, served, _restart_task, timerBrowser>>

\* _run: new_context(), context.route() and new_page() succeed.
PageOpen ==
    /\ pc = "page"
    /\ hstate[_browser] = "open"
    /\ pc' = "goto"
    /\ UNCHANGED <<yasnoVars, dtekVars, idled, max_requests, jstate, future, queue, is_shutdown,
                   unfinished, joinState, cur, exc, exitKind, ended, _browser,
                   hstate, _requests, served, _restart_task, timer,
                   timerBrowser, lockHolder, lockWaiters>>

\* new_context() raises PlaywrightError (for one, the handle is gone).
PageFail ==
    /\ pc = "page"
    /\ FinishJob("pw")
    /\ UNCHANGED <<yasnoVars, dtekVars, idled, max_requests, jstate, queue, is_shutdown, joinState, ended,
                   _browser, hstate, served, _restart_task, timerBrowser>>

\* _run: page.goto(job.url) returns an ok response ("none"), a response
\* that is not ok, turned into ConnectionError ("status"), or raises
\* PlaywrightError ("pw").
Goto(outcome) ==
    /\ pc = "goto"
    /\ outcome = "none" => hstate[_browser] = "open"
    /\ IF outcome = "none"
         THEN pc' = "action" /\ UNCHANGED exc
         ELSE pc' = "closing" /\ exc' = outcome
    /\ UNCHANGED <<yasnoVars, dtekVars, idled, max_requests, jstate, future, queue, is_shutdown,
                   unfinished, joinState, cur, exitKind, ended, _browser,
                   hstate, _requests, served, _restart_task, timer,
                   timerBrowser, lockHolder, lockWaiters>>

\* _run: `result = await job.execute(page); job.result = result`.  The
\* action returns ("none") or raises ("exc", "timeout", "pw"); set_result
\* on a future that is no longer pending raises InvalidStateError.
Action(outcome) ==
    /\ pc = "action"
    /\ pc' = "closing"
    /\ IF outcome = "none"
         THEN IF future[cur] = "pending"
                THEN /\ future' = [future EXCEPT ![cur] = "result"]
                     /\ exc' = "none"
                ELSE /\ exc' = "invalid"
                     /\ UNCHANGED future
         ELSE /\ exc' = outcome
              /\ UNCHANGED future
    /\ UNCHANGED <<yasnoVars, dtekVars, idled, max_requests, jstate, queue, is_shutdown, unfinished,
                   joinState, cur, exitKind, ended, _browser, hstate,
                   _requests, served, _restart_task, timer, timerBrowser,
                   lockHolder, lockWaiters>>

\* The `async with` blocks of the page and the context are left: their
\* close() succeeds and the pending exception (if any) goes on, or close()
\* raises PlaywrightError, which replaces it.
CloseContext(ok) ==
    /\ pc = "closing"
    /\ FinishJob(IF ok THEN exc ELSE "pw")
    /\ UNCHANGED <<yasnoVars, dtekVars, idled, max_requests, jstate, queue, is_shutdown, joinState, ended,
                   _browser, hstate, served, _restart_task, timerBrowser>>

\* The supervisor task is cancelled (CancelledError is thrown at the await
\* it is suspended in).  In start() it leaves run(); in get() it leaves
\* _run; inside a job no except clause of _run matches, the finally clause
\* still runs.
WorkerCancel ==
    /\ pc \in {"start", "get", "lock"} \cup UsePcs
    /\ IF pc = "start"
         THEN /\ pc' = "ended"
              /\ ended' = "cancelled"
              /\ UNCHANGED <<future, unfinished, cur, exc, exitKind,
                             _requests, timer, lockHolder, lockWaiters>>
         ELSE IF pc = "get"
           THEN /\ ExitRun("cancelled")
                /\ UNCHANGED <<future, unfinished, cur, exc, ended, _requests>>
           ELSE /\ FinishJob("cancel")
                /\ UNCHANGED ended
    /\ UNCHANGED <<yasnoVars, dtekVars, idled, max_requests, jstate, queue, is_shutdown, joinState,
                   _browser, hstate, served, _restart_task, timerBrowser>>

\* run(), finally clause: the cancelled timer task has ended; the handle is
\* closed (errors suppressed) and cleared.
Teardown ==
    /\ pc = "teardown"
    /\ IF _browser # 0
         THEN /\ hstate' = [hstate EXCEPT ![_browser] = "closed"]
              /\ _browser' = 0
         ELSE UNCHANGED <<hstate, _browser>>
    /\ pc' = "stop"
    /\ UNCHANGED <<yasnoVars, dtekVars, idled, max_requests, jstate, future, queue, is_shutdown,
                   unfinished, joinState, cur, exc, exitKind, ended,
                   _requests, served, _restart_task, timer, timerBrowser,
                   lockHolder, lockWaiters>>

\* run(), end of the finally clause: `await playwright.stop()` returns;
\* the loop ends after a CancelledError (break) and restarts otherwise.
StopOk ==
    /\ pc = "stop"
    /\ IF exitKind \in {"cancelled", "shutdown"}
         THEN pc' = "ended" /\ ended' = exitKind
         ELSE pc' = "start" /\ UNCHANGED ended
    /\ UNCHANGED <<yasnoVars, dtekVars, idled, max_requests, jstate, future, queue, is_shutdown,
                   unfinished, joinState, cur, exc, exitKind, _browser, hstate,
                   _requests, served, _restart_task, timer, timerBrowser,
                   lockHolder, lockWaiters>>

\* playwright.stop() raises inside the finally clause: the exception
\* leaves run().
StopFail ==
    /\ pc = "stop"
    /\ pc' = "ended"
    /\ ended' = "error"
    /\ UNCHANGED <<yasnoVars, dtekVars, idled, max_requests, jstate, future, queue, is_shutdown,
                   unfinished, joinState, cur, exc, exitKind, _browser, hstate,
                   _requests, served, _restart_task, timer, timerBrowser,
                   lockHolder, lockWaiters>>

----------------------------------------------------------------------------
(* Schedule normalisation: src/app/providers/yasno.py                      *)

\* Days processed by one planned_outages call.
MaxDays == 3
\* Slots supplied for one day.
MaxSlots == 2
\* Day.date ranges over the days 0..MaxDate.
MaxDate == 1

\* Minutes in a day: datetime + timedelta(minutes=m).
DayMinutes == 24 * 60

\* The members of Group that occur in a payload.
Group == {"1.1", "1.2"}
\* The keys a payload may carry: groups and a code that is no Group.
GroupCodes == Group \cup {"7.1"}

SlotType == {"Definite", "NotPlanned"}
DayStatus == {"ScheduleApplies", "WaitingForSchedule", "EmergencyShutdowns"}

\* A supplied slot covers one half of its day.
HalfDay == DayMinutes \div 2

\* Slot as parsed from the payload: start, end, type.
RawSlots ==
    [start : {0}, end : {HalfDay}, type : SlotType]
        \cup [start : {HalfDay}, end : {2 * HalfDay}, type : SlotType]

SlotLists == UNION {[1..n -> RawSlots] : n \in 0..MaxSlots}

\* Day as parsed from the payload: the days of a group arrive in the order
\* of DayName (today, tomorrow, "0".."6"), absent names being skipped.
Days == [date : 0..MaxDate, status : DayStatus, slots : SlotLists]

NoDay == [date |-> 0, status |-> "none", slots |-> <<>>]

\* Slot.dt_start, Slot.dt_end: date + timedelta(minutes=offset), in minutes.
dt_start(slot) == slot.date_start * DayMinutes + slot.start

dt_end(slot) == slot.date_end * DayMinutes + slot.end

\* Slot.title
title(slot) ==
    CASE slot.day_status = "ScheduleApplies" -> "Scheduled"
      [] slot.day_status = "EmergencyShutdowns" -> "Emergency"
      [] slot.day_status = "WaitingForSchedule" -> "Probable"
      [] OTHER -> "None"

\* Mutant of get_slots: the returned slots are filtered by type only.
get_slots_NoStatusFilter(d) ==
    LET dated == [i \in 1..Len(d.slots) |->
                    [start |-> d.slots[i].start, end |-> d.slots[i].end,
                     type |-> d.slots[i].type, date_start |-> d.date,
                     date_end |-> d.date, day_status |-> d.status]]
        emergency == [start |-> 0, end |-> 1440, type |-> "Definite",
                      date_start |-> d.date, date_end |-> d.date,
                      day_status |-> d.status]
        slots == IF d.status = "EmergencyShutdowns" THEN <<emergency>> ELSE dated
    IN  SelectSeq(slots, LAMBDA slot : slot.type = "Definite")

\* Mutant of get_slots: the emergency slot is added to the supplied slots
\* of the day, not put in their place.
get_slots_KeepSlots(d) ==
    LET dated == [i \in 1..Len(d.slots) |->
                    [start |-> d.slots[i].start, end |-> d.slots[i].end,
                     type |-> d.slots[i].type, date_start |-> d.date,
                     date_end |-> d.date, day_status |-> d.status]]
        emergency == [start |-> 0, end |-> 1440, type |-> "Definite",
                      date_start |-> d.date, date_end |-> d.date,
                      day_status |-> d.status]
        slots == IF d.status = "EmergencyShutdowns"
                   THEN <<emergency>> \o dated ELSE dated
    IN  SelectSeq(slots, LAMBDA slot :
            slot.type = "Definite" /\ slot.day_status # "WaitingForSchedule")

\* Day.get_slots: the slots of the day get its date and status, an
\* emergency day is replaced by one slot 0..1440; only Definite slots of a
\* day that is not waiting are returned.
get_slots(d) ==
    LET dated == [i \in 1..Len(d.slots) |->
                    [start |-> d.slots[i].start, end |-> d.slots[i].end,
                     type |-> d.slots[i].type, date_start |-> d.date,
                     date_end |-> d.date, day_status |-> d.status]]
        emergency == [start |-> 0, end |-> 1440, type |-> "Definite",
                      date_start |-> d.date, date_end |-> d.date,
                      day_status |-> d.status]
        slots == IF d.status = "EmergencyShutdowns" THEN <<emergency>> ELSE dated
    IN  SelectSeq(slots, LAMBDA slot :
            slot.type = "Definite" /\ slot.day_status # "WaitingForSchedule")

\* Mutant of joined_slot: the end date is taken from last_slot.
joined_slot_LastDate(last_slot, next_slot) ==
    [start |-> last_slot.start, end |-> next_slot.end, type |-> "Definite",
     date_start |-> last_slot.date_start, date_end |-> last_slot.date_end,
     day_status |-> last_slot.day_status]

\* planned_outages: the joined_slot built from last_slot and next_slot.
joined_slot(last_slot, next_slot) ==
    [start |-> last_slot.start, end |-> next_slot.end, type |-> "Definite",
     date_start |-> last_slot.date_start, date_end |-> next_slot.date_end,
     day_status |-> last_slot.day_status]

\* Mutant of Extended: the joined slot is followed by all the slots of the
\* day, the first included.
Extended_KeepFirst(acc, day_slots) ==
    IF acc # <<>> /\ day_slots # <<>>
      THEN LET last_slot == acc[Len(acc)]
               next_slot == day_slots[1]
           IN  IF /\ dt_end(last_slot) = dt_start(next_slot)
                  /\ last_slot.type = next_slot.type
                  /\ last_slot.day_status = next_slot.day_status
                 THEN SubSeq(acc, 1, Len(acc) - 1)
                        \o <<joined_slot(last_slot, next_slot)>>
                        \o day_slots
                 ELSE acc \o day_slots
      ELSE acc \o day_slots

\* Mutant of Extended: the joined slot is added without removing the last
\* window it was built from.
Extended_KeepLast(acc, day_slots) ==
    IF acc # <<>> /\ day_slots # <<>>
      THEN LET last_slot == acc[Len(acc)]
               next_slot == day_slots[1]
           IN  IF /\ dt_end(last_slot) = dt_start(next_slot)
                  /\ last_slot.type = next_slot.type
                  /\ last_slot.day_status = next_slot.day_status
                 THEN acc \o <<joined_slot(last_slot, next_slot)>>
                        \o Tail(day_slots)
                 ELSE acc \o day_slots
      ELSE acc \o day_slots

\* Mutant of Extended: the day statuses of the two slots are not compared.
Extended_IgnoreStatus(acc, day_slots) ==
    IF acc # <<>> /\ day_slots # <<>>
      THEN LET last_slot == acc[Len(acc)]
               next_slot == day_slots[1]
           IN  IF /\ dt_end(last_slot) = dt_start(next_slot)
                  /\ last_slot.type = next_slot.type
                 THEN SubSeq(acc, 1, Len(acc) - 1)
                        \o <<joined_slot(last_slot, next_slot)>>
                        \o Tail(day_slots)
                 ELSE acc \o day_slots
      ELSE acc \o day_slots

\* planned_outages, body of the day loop: the list of the group after the
\* day's slots are appended, the last window and the first new slot being
\* joined when they touch and agree in type and day status.
Extended(acc, day_slots) ==
    IF acc # <<>> /\ day_slots # <<>>
      THEN LET last_slot == acc[Len(acc)]
               next_slot == day_slots[1]
           IN  IF /\ dt_end(last_slot) = dt_start(next_slot)
                  /\ last_slot.type = next_slot.type
                  /\ last_slot.day_status = next_slot.day_status
                 THEN SubSeq(acc, 1, Len(acc) - 1)
                        \o <<joined_slot(last_slot, next_slot)>>
                        \o Tail(day_slots)
                 ELSE acc \o day_slots
      ELSE acc \o day_slots

\* The slots supplied for a day are in order and do not overlap.
SlotsSorted(d) ==
    \A i \in 1..(Len(d.slots) - 1) : d.slots[i].end <= d.slots[i + 1].start

\* groups[g] of the defaultdict, without inserting the key.
SlotsOf(g) == IF g \in DOMAIN groups THEN groups[g] ELSE <<>>

\* planned_outages before its loop: `groups` is an empty defaultdict.
YasnoInit ==
    /\ groups = [g \in {} |-> <<>>]
    /\ group_id = ""
    /\ visited = {}
    /\ ndays = 0
    /\ day = NoDay
    /\ ystate = "loop"
    /\ slots_sorted = TRUE
    /\ dates_ascending = TRUE
    /\ groups_nw = [g \in {} |-> <<>>]
    /\ raised_nw = FALSE

\* planned_outages: the outer loop takes the next key of the payload.
NextGroup(g) ==
    /\ ystate = "loop"
    /\ g \notin visited
    /\ group_id' = g
    /\ visited' = visited \cup {g}
    /\ day' = NoDay
    /\ UNCHANGED <<poolVars, dtekVars, groups, ndays, ystate, slots_sorted,
                   dates_ascending, groups_nw, raised_nw>>

\* groups[g] of the defaultdict of the call on the payload without its
\* waiting days, without inserting the key.
SlotsOfNw(g) == IF g \in DOMAIN groups_nw THEN groups_nw[g] ELSE <<>>

\* The same body of the day loop in the call of planned_outages on the
\* payload without its waiting days: that payload has no entry for a
\* waiting day d, so the day name is absent and the body is skipped; any
\* other day is processed as in ProcessDay.
WithoutWaiting(d) ==
    IF d.status = "WaitingForSchedule"
      THEN UNCHANGED <<groups_nw, raised_nw>>
      ELSE IF group_id \in Group
        THEN /\ groups_nw' = [g \in DOMAIN groups_nw \cup {group_id} |->
                                 IF g = group_id
                                   THEN Extended(SlotsOfNw(g), get_slots(d))
                                   ELSE groups_nw[g]]
             /\ UNCHANGED raised_nw
        ELSE /\ raised_nw' = TRUE
             /\ UNCHANGED groups_nw

\* planned_outages: the inner loop finds the next day name present for the
\* group, validates the Day d and appends its slots.  Group(group_id)
\* raises ValueError for a key that is no Group.
ProcessDay(d) ==
    /\ ystate = "loop"
    /\ group_id # ""
    /\ ndays < MaxDays
    /\ ndays' = ndays + 1
    /\ day' = d
    /\ IF group_id \in Group
         THEN /\ groups' = [g \in DOMAIN groups \cup {group_id} |->
                               IF g = group_id
                                 THEN Extended(SlotsOf(g), get_slots(d))
                                 ELSE groups[g]]
              /\ UNCHANGED ystate
         ELSE /\ ystate' = "raised"
              /\ UNCHANGED groups
    /\ slots_sorted' = (slots_sorted /\ SlotsSorted(d))
    /\ dates_ascending' = (dates_ascending /\ (day = NoDay \/ day.date < d.date))
    /\ WithoutWaiting(d)
    /\ UNCHANGED <<poolVars, dtekVars, group_id, visited>>

\* planned_outages: both loops are over, dict(groups) is returned.
Return ==
    /\ ystate = "loop"
    /\ ystate' = "returned"
    /\ day' = NoDay
    /\ UNCHANGED <<poolVars, dtekVars, groups, group_id, visited, ndays, slots_sorted,
                   dates_ascending, groups_nw, raised_nw>>

----------------------------------------------------------------------------
(* Schedule scraping: src/app/providers/dtek.py                            *)

\* Entries (timestamp, group) of one DisconSchedule.fact payload.
MaxEntries == 2
\* Hour keys "1".."MaxHours" of one group of one timestamp.
MaxHours == 2

\* The keys of a payload: keys of GROUP_MAP and a key that is none.
DtekCodes == {"GPV1.1", "GPV1.2", "GPV7.1"}

\* GROUP_MAP, for the groups of Group.
GROUP_MAP == [c \in {"GPV1.1", "GPV1.2"} |->
                 IF c = "GPV1.1" THEN "1.1" ELSE "1.2"]

\* State, and a value of the page that is no member of it.
State == {"no", "yes", "first", "second"}

HourStates == State \cup {"maybe"}

\* The hour keys of a day as the page writes them, "1" to "24".
HourKeys == <<"1", "2", "3", "4", "5", "6", "7", "8", "9", "10", "11", "12",
              "13", "14", "15", "16", "17", "18", "19", "20", "21", "22",
              "23", "24">>

\* int(hour) of _parse_group, on the hour keys.
int(hour) == CHOOSE n \in 1..Len(HourKeys) : HourKeys[n] = hour

\* The items (hour, state) of one group of one timestamp, in the order of
\* the dict: the keys "1".."MaxHours" ascending, as the page lists them.
DayItems ==
    {[i \in 1..MaxHours |-> [hour |-> HourKeys[i], state |-> f[i]]] :
        f \in [1..MaxHours -> HourStates]}

\* The payload fact["data"], timestamp -> group -> hour -> state, as the
\* nested loops of planned_outages walk it: one entry per timestamp and
\* group, the timestamp being the day it starts.
Entries == [timestamp : 0..MaxDate, g : DtekCodes,
            hours : DayItems]

Payloads ==
    {es \in UNION {[1..n -> Entries] : n \in 0..MaxEntries} :
        \A i, k \in 1..Len(es) :
            (es[i].timestamp = es[k].timestamp /\ es[i].g = es[k].g) => i = k}

\* What the page shows: the emergency text, and DisconSchedule.fact (a
\* payload, or missing).
Pages ==
    {p \in [emergency : BOOLEAN, has_fact : BOOLEAN, data : Payloads] :
        ~p.has_fact => p.data = <<>>}

NoPage == [emergency |-> FALSE, has_fact |-> FALSE, data |-> <<>>]

NoResult == [kind |-> "none", data |-> <<>>]

\* Mutant of parse_item: the second half of the hour starts with the hour.
parse_item_SecondAtHourStart(dt, hour, state) ==
    LET hours == int(hour) - 1
    IN  CASE state = "no" ->
               <<[dt_start |-> dt + hours * 60,
                  dt_end |-> dt + hours * 60 + 60,
                  title |-> "Scheduled"]>>
          [] state = "first" ->
               <<[dt_start |-> dt + hours * 60,
                  dt_end |-> dt + hours * 60 + 30,
                  title |-> "Scheduled"]>>
          [] state = "second" ->
               <<[dt_start |-> dt + hours * 60,
                  dt_end |-> dt + hours * 60 + 30,
                  title |-> "Scheduled"]>>
          [] OTHER -> <<>>

\* _parse_group, the body of the loop for one item of `data`: the slots it
\* appends (one or none), dt in minutes.
parse_item(dt, hour, state) ==
    LET hours == int(hour) - 1
    IN  CASE state = "no" ->
               <<[dt_start |-> dt + hours * 60,
                  dt_end |-> dt + hours * 60 + 60,
                  title |-> "Scheduled"]>>
          [] state = "first" ->
               <<[dt_start |-> dt + hours * 60,
                  dt_end |-> dt + hours * 60 + 30,
                  title |-> "Scheduled"]>>
          [] state = "second" ->
               <<[dt_start |-> dt + hours * 60 + 30,
                  dt_end |-> dt + hours * 60 + 60,
                  title |-> "Scheduled"]>>
          [] OTHER -> <<>>

\* _parse_group, the loop over data.items() from item i on.
RECURSIVE parse_from(_, _, _)
parse_from(dt, data, i) ==
    IF i > Len(data) THEN <<>>
    ELSE parse_item(dt, data[i].hour, data[i].state)
           \o parse_from(dt, data, i + 1)

\* DtekShutdownBase._parse_group
_parse_group(dt, data) == parse_from(dt, data, 1)

\* _join_slots, the loop over slots[1:] with `joined` so far.
RECURSIVE join_from(_, _)
join_from(joined, slots) ==
    IF slots = <<>> THEN joined
    ELSE LET slot == Head(slots)
             prev == joined[Len(joined)]
         IN  IF slot.dt_start = prev.dt_end
               THEN join_from(
                        SubSeq(joined, 1, Len(joined) - 1)
                          \o <<[dt_start |-> prev.dt_start,
                                dt_end |-> slot.dt_end,
                                title |-> "Scheduled"]>>,
                        Tail(slots))
               ELSE join_from(Append(joined, slot), Tail(slots))

\* Mutant of _join_slots: the list is returned as it came.
_join_slots_AsGiven(slots) == slots

\* DtekShutdownBase._join_slots
_join_slots(slots) ==
    IF slots = <<>> THEN <<>> ELSE join_from(<<Head(slots)>>, Tail(slots))

\* planned_outages, the loops over data.items() and groups.items() from
\* entry i on, with the dict `slots` so far; GROUP_MAP[g] raises KeyError.
RECURSIVE outages_from(_, _, _)
outages_from(slots, data, i) ==
    IF i > Len(data) THEN [raised |-> FALSE, slots |-> slots]
    ELSE IF data[i].g \notin DOMAIN GROUP_MAP
      THEN [raised |-> TRUE, slots |-> slots]
      ELSE LET group == GROUP_MAP[data[i].g]
               dt == data[i].timestamp * DayMinutes
               old == IF group \in DOMAIN slots THEN slots[group] ELSE <<>>
               new == _join_slots(old \o _parse_group(dt, data[i].hours))
           IN  outages_from(
                   [x \in DOMAIN slots \cup {group} |->
                       IF x = group THEN new ELSE slots[x]],
                   data, i + 1)

\* Items of one _parse_group call.
MaxItems == 3
\* Half hours of the grid the joined slots lie on.
MaxGrid == 5
\* Slots of one group handed to _join_slots in two calls.
MaxJoin == 4

\* Hour keys of a _parse_group call: the first hours and the last one.
ParseKeys == {HourKeys[n] : n \in 1..MaxHours} \cup {HourKeys[Len(HourKeys)]}

\* data.items() of a _parse_group call: a dict has its keys once, in any
\* order.
ParseInputs ==
    {d \in UNION {[1..n -> [hour : ParseKeys, state : HourStates]] :
                      n \in 0..MaxItems} :
        \A i, k \in 1..Len(d) : d[i].hour = d[k].hour => i = k}

\* Slots as _parse_group and _join_slots build them, on a half-hour grid
\* that starts one hour before the end of day 0.
GridSlots ==
    {[dt_start |-> DayMinutes - 60 + 30 * q[1],
      dt_end |-> DayMinutes - 60 + 30 * q[2],
      title |-> "Scheduled"] :
        q \in {r \in (0..MaxGrid) \X (0..MaxGrid) : r[1] < r[2]}}

\* Lists of slots in chronological order.
ChronoLists ==
    {l \in UNION {[1..n -> GridSlots] : n \in 0..MaxJoin} :
        \A i \in 1..(Len(l) - 1) : l[i].dt_end <= l[i + 1].dt_start}

\* Neither _parse_group nor the joins of a group are running.
ReduceIdle ==
    /\ rpc = "idle"
    /\ parse_dt = 0
    /\ parse_data = <<>>
    /\ parse_slots = <<>>
    /\ join_a = <<>>
    /\ join_b = <<>>
    /\ join_res = <<>>
    /\ join_out = <<>>

\* _parse_group is called with the start of a day and the items of a group.
ParseInit ==
    /\ rpc = "parse"
    /\ parse_dt \in {d * DayMinutes : d \in 0..MaxDate}
    /\ parse_data \in ParseInputs
    /\ parse_slots = <<>>
    /\ join_a = <<>>
    /\ join_b = <<>>
    /\ join_res = <<>>
    /\ join_out = <<>>

\* _parse_group returns.
ParseGroup ==
    /\ rpc = "parse"
    /\ rpc' = "parsed"
    /\ parse_slots' = _parse_group(parse_dt, parse_data)
    /\ UNCHANGED <<poolVars, yasnoVars, page, today, dpc, got, fact_read,
                   outages, parse_dt, parse_data, join_a, join_b, join_res,
                   join_out>>

\* planned_outages meets a group for the first time with the slots join_a
\* and later again with the slots join_b, join_a \o join_b being in
\* chronological order.
JoinInit ==
    /\ rpc = "join"
    /\ \E l \in ChronoLists : \E k \in 0..Len(l) :
          /\ join_a = SubSeq(l, 1, k)
          /\ join_b = SubSeq(l, k + 1, Len(l))
    /\ join_res = <<>>
    /\ join_out = <<>>
    /\ parse_dt = 0
    /\ parse_data = <<>>
    /\ parse_slots = <<>>

\* planned_outages: slots[group] = _join_slots([] + join_a).
JoinFirst ==
    /\ rpc = "join"
    /\ rpc' = "joined"
    /\ join_res' = _join_slots(<<>> \o join_a)
    /\ UNCHANGED <<poolVars, yasnoVars, page, today, dpc, got, fact_read,
                   outages, parse_dt, parse_data, parse_slots, join_a,
                   join_b, join_out>>

\* planned_outages: slots[group] = _join_slots(slots[group] + join_b).
JoinAgain ==
    /\ rpc = "joined"
    /\ rpc' = "rejoined"
    /\ join_out' = _join_slots(join_res \o join_b)
    /\ UNCHANGED <<poolVars, yasnoVars, page, today, dpc, got, fact_read,
                   outages, parse_dt, parse_data, parse_slots, join_a,
                   join_b, join_res>>

\* planned_outages is not running.
DtekIdle ==
    /\ page = NoPage
    /\ today = 0
    /\ dpc = "idle"
    /\ got = NoResult
    /\ fact_read = FALSE
    /\ outages = [x \in {} |-> <<>>]

\* planned_outages was called and awaits self._get(): the job BrowserJob(URL)
\* is with the pool.
DtekInit ==
    /\ page \in Pages
    /\ today \in 0..MaxDate
    /\ dpc = "awaiting"
    /\ got = NoResult
    /\ fact_read = FALSE
    /\ outages = [x \in {} |-> <<>>]

\* Mutant of DtekExecute: the fact is read first and the emergency text is
\* looked for only when there is none.
DtekExecute_FactFirst(timed_out) ==
    /\ dpc = "awaiting"
    /\ dpc' = "executed"
    /\ IF page.has_fact
         THEN /\ got' = [kind |-> "data", data |-> page.data]
              /\ fact_read' = TRUE
         ELSE IF page.emergency
           THEN /\ got' = [kind |-> "EmergencyShutdown", data |-> <<>>]
                /\ UNCHANGED fact_read
           ELSE IF timed_out
             THEN /\ got' = [kind |-> "PlaywrightError", data |-> <<>>]
                  /\ UNCHANGED fact_read
             ELSE /\ got' = [kind |-> "ValueError", data |-> <<>>]
                  /\ fact_read' = TRUE
    /\ UNCHANGED <<poolVars, yasnoVars, reduceVars, page, today, outages>>

\* BrowserJob.execute on the loaded page: the emergency text raises
\* EmergencyShutdown before the page is asked for DisconSchedule.fact; else
\* the fact is waited for and evaluated, and its "data" is the result.
\* Without a fact wait_for_function times out (a PlaywrightError), or the
\* evaluation finds none and ValueError is raised.
DtekExecute(timed_out) ==
    /\ dpc = "awaiting"
    /\ dpc' = "executed"
    /\ IF page.emergency
         THEN /\ got' = [kind |-> "EmergencyShutdown", data |-> <<>>]
              /\ UNCHANGED fact_read
         ELSE IF page.has_fact
           THEN /\ got' = [kind |-> "data", data |-> page.data]
                /\ fact_read' = TRUE
           ELSE IF timed_out
             THEN /\ got' = [kind |-> "PlaywrightError", data |-> <<>>]
                  /\ UNCHANGED fact_read
             ELSE /\ got' = [kind |-> "ValueError", data |-> <<>>]
                  /\ fact_read' = TRUE
    /\ UNCHANGED <<poolVars, yasnoVars, reduceVars, page, today, outages>>

\* The pool fails the job with a PlaywrightError: before execute() (launch,
\* context or navigation failed) or after it, when closing the page or the
\* context raises and the error replaces the outcome of execute().
DtekPoolError ==
    /\ dpc \in {"awaiting", "executed"}
    /\ got.kind # "PlaywrightError"
    /\ dpc' = "executed"
    /\ got' = [kind |-> "PlaywrightError", data |-> <<>>]
    /\ UNCHANGED <<poolVars, yasnoVars, reduceVars, page, today, fact_read, outages>>

\* planned_outages resumes from `await self._get()` and runs to its end:
\* EmergencyShutdown gives every group one emergency slot from the start of
\* today to two days later, another exception leaves the call, no data
\* gives {}, data is reduced group by group.
DtekResume ==
    /\ dpc = "executed"
    /\ CASE got.kind = "EmergencyShutdown" ->
              /\ outages' = [group \in Group |->
                                <<[dt_start |-> today * DayMinutes,
                                   dt_end |-> (today + 2) * DayMinutes,
                                   title |-> "Emergency"]>>]
              /\ dpc' = "returned"
         [] got.kind = "data" ->
              LET r == outages_from([x \in {} |-> <<>>], got.data, 1)
              IN  IF r.raised
                    THEN dpc' = "raised" /\ UNCHANGED outages
                    ELSE dpc' = "returned" /\ outages' = r.slots
         [] OTHER -> dpc' = "raised" /\ UNCHANGED outages
    /\ UNCHANGED <<poolVars, yasnoVars, reduceVars, page, today, got, fact_read>>

Init == PoolInit /\ YasnoInit /\ DtekIdle /\ ReduceIdle

Next ==
    \/ \E j \in Jobs : Execute(j)
    \/ \E j \in Jobs : CallerCancel(j)
    \/ ShutdownCall
    \/ ShutdownReturn
    \/ Disconnect
    \/ \E t \in Jobs : TimerExpire(t)
    \/ \E t \in Jobs : TimerClose(t)
    \/ StartOk
    \/ StartFail
    \/ GetJob
    \/ GetShutDown
    \/ BrowserCheck
    \/ LaunchOk
    \/ LaunchFail
    \/ PageOpen
    \/ PageFail
    \/ \E o \in {"none", "status", "pw"} : Goto(o)
    \/ \E o \in {"none", "exc", "timeout", "pw"} : Action(o)
    \/ \E ok \in BOOLEAN : CloseContext(ok)
    \/ WorkerCancel
    \/ Teardown
    \/ StopOk
    \/ StopFail

Spec == Init /\ [][Next]_vars

\* The event loop runs a task that is ready: the getter woken by
\* Queue.shutdown() gets its QueueShutDown, and the close() awaited in the
\* teardown of run() returns.
SpecFair == Spec /\ WF_vars(GetShutDown) /\ WF_vars(Teardown)

\* One call of YasnoBlackout.planned_outages on any payload.
InitYasno ==
    PoolInit /\ max_requests = 1 /\ YasnoInit /\ DtekIdle /\ ReduceIdle

NextYasno ==
    \/ \E g \in GroupCodes : NextGroup(g)
    \/ \E d \in Days : ProcessDay(d)
    \/ Return

SpecYasno == InitYasno /\ [][NextYasno]_vars

\* One call of DtekShutdownBase.planned_outages on any page.
InitDtek ==
    PoolInit /\ max_requests = 1 /\ YasnoInit /\ DtekInit /\ ReduceIdle

NextDtek ==
    \/ \E timed_out \in BOOLEAN : DtekExecute(timed_out)
    \/ DtekPoolError
    \/ DtekResume

SpecDtek == InitDtek /\ [][NextDtek]_vars

\* One call of DtekShutdownBase._parse_group on any items.
InitParse ==
    PoolInit /\ max_requests = 1 /\ YasnoInit /\ DtekIdle /\ ParseInit

NextParse == ParseGroup

SpecParse == InitParse /\ [][NextParse]_vars

\* The two calls of DtekShutdownBase._join_slots planned_outages makes for
\* a group it meets twice, on any slots in chronological order.
InitJoin ==
    PoolInit /\ max_requests = 1 /\ YasnoInit /\ DtekIdle /\ JoinInit

NextJoin ==
    \/ JoinFirst
    \/ JoinAgain

SpecJoin == InitJoin /\ [][NextJoin]_vars

----------------------------------------------------------------------------
(* Properties of the pool                                                  *)

\* The job is marked done: accepted by execute(), dequeued by _run and
\* released by the finally clause (task_done()).
MarkedDone(j) == jstate[j] = "accepted" /\ ~InSeq(queue, j) /\ cur # j

\* A terminal outcome was written to the job's future.
Settled(j) == future[j] \in {"result", "exception"}

\* Positions of _run after Browser.browser has returned the handle.
AcquiredPcs == {"page", "goto", "action", "closing"}

\* The parties operating on the handle: the job in _run between the lock
\* and the close of its context, the supervisor closing the handle in its
\* teardown, a timer task inside the locked part of _restart.
Operating ==
    {p \in {WorkerId} : pc \in UsePcs \cup {"teardown"}}
        \cup {t \in Jobs : timer[t] = "closing"}

\* C1: at every moment at most one party operates on the browser handle:
\* a job's use of the handle (from Browser.browser to the close of its
\* context), the supervisor's teardown and the idle timer's locked close
\* never overlap, and whoever operates under the lock is its holder.
C1_OneOperator ==
    /\ Cardinality(Operating) <= 1
    /\ pc \in UsePcs => lockHolder = WorkerId
    /\ \A t \in Jobs : timer[t] = "closing" => lockHolder = t

\* C1 witness: a job waits for the lock while the idle timer closes the
\* handle under it.
C1_Witness ==
    pc = "lock" /\ \E t \in Jobs : timer[t] = "closing" /\ lockHolder = t

\* C2 (as claimed): every job the worker has marked done carries exactly
\* one terminal outcome, a result or an error.
C2_DoneImpliesOutcome ==
    \A j \in Jobs : MarkedDone(j) => Settled(j)

\* C3 (as claimed): when the worker navigates for job b, the terminal
\* outcome of every job enqueued before b has been written.
C3_FifoOutcomeBeforeNext ==
    \A a, b \in Jobs :
        (a < b /\ jstate[a] = "accepted" /\ cur = b
            /\ pc \in {"goto", "action", "closing"}) => Settled(a)

\* C4 (as claimed): once shutdown() has returned, every job accepted
\* before it is marked done and has received a terminal outcome.
C4_DrainedOnReturn ==
    joinState = "returned" =>
        \A j \in Jobs : jstate[j] = "accepted" => MarkedDone(j) /\ Settled(j)

\* C5: a submission after shutdown() closed the queue fails at once; the
\* rejected job is never in the queue, never held by the worker, and its
\* future is never touched.
C5_RejectAfterShutdown ==
    /\ [](\A j \in Jobs : jstate[j] = "rejected" =>
              ~InSeq(queue, j) /\ cur # j /\ future[j] = "pending")
    /\ [][\A j \in Jobs :
              (is_shutdown /\ jstate[j] = "new" /\ jstate'[j] # "new") =>
                  /\ jstate'[j] = "rejected"
                  /\ queue' = queue
                  /\ unfinished' = unfinished]_vars

\* C5 witness: a job was rejected while an accepted one is still queued.
C5_Witness ==
    \E j \in Jobs : jstate[j] = "rejected" /\ is_shutdown /\ queue # <<>>

\* C6: no handle ever serves more than max_requests jobs; a job that got
\* the handle finds fewer than max_requests requests counted on it, the
\* count is the number of jobs the handle served before, and a handle
\* launched for the job starts at 0.
C6_RecycleByCount ==
    /\ \A h \in Jobs : served[h] <= max_requests
    /\ pc \in AcquiredPcs =>
          /\ _requests < max_requests
          /\ _requests = served[_browser] - 1
          /\ _browser = cur => _requests = 0

\* C6 witness: with no idle expiry and no supervisor restart so far, a job
\* is served by the handle launched for it after the previous handle had
\* served max_requests jobs.
C6_Witness ==
    /\ pc = "page" /\ _browser = cur /\ cur > 1
    /\ idled = {} /\ exitKind = "none"
    /\ \E h \in Jobs : h < cur /\ served[h] = max_requests /\ hstate[h] = "closed"
    /\ \A j \in Jobs : j < cur => Settled(j)

\* C7: once the idle timer of a handle has expired, no job acquires that
\* handle again, and when the timer task has finished the handle is closed
\* and no longer the pool's handle, so the next job launches a fresh one.
C7_IdleRecycle ==
    /\ [](\A t \in Jobs : timer[t] = "done" =>
              /\ hstate[timerBrowser[t]] = "closed"
              /\ _browser # timerBrowser[t])
    /\ [][\A h \in idled : served'[h] = served[h]]_vars

\* C7 witness: after the idle timer closed the previous handle, the next
\* job runs on a handle launched for it.
C7_Witness ==
    /\ pc = "page" /\ _browser = cur
    /\ \E t \in Jobs : /\ timer[t] = "done"
                       /\ timerBrowser[t] \in idled
                       /\ timerBrowser[t] < cur

\* C8 (as claimed): run() never ends because of an error.
C8_RunNeverEndsByError == ended # "error"

\* C9: cancelling a caller's await leaves the queue and its bookkeeping
\* untouched; the worker always dequeues the head of the queue, whatever
\* the state of its future; and every job the worker releases is counted
\* in _requests.
C9_AbandonedStillServed ==
    [][/\ \A j \in Jobs :
              (future[j] = "pending" /\ future'[j] = "cancelled") =>
                  queue' = queue /\ unfinished' = unfinished
       /\ (cur = 0 /\ cur' # 0) =>
              cur' = Head(queue) /\ queue' = Tail(queue)
       /\ (cur # 0 /\ cur' = 0) => _requests' = _requests + 1]_vars

\* C9 witness: a job whose caller gave up while an earlier job was being
\* served has been dequeued after that job and navigated on the handle.
C9_Witness ==
    /\ pc = "action" /\ cur > 1
    /\ future[cur] = "cancelled"
    /\ \A j \in Jobs : j < cur => MarkedDone(j)

\* C20 (as claimed): when the worker waits on a queue that shutdown() has
\* closed and that is empty, the loop is left as a clean shutdown, never as
\* a failure, and after such an exit run() ends with no further start of
\* the automation runtime.
C20_CleanShutdownEndsRun ==
    /\ [][(pc = "get" /\ is_shutdown /\ queue = <<>> /\ pc' # "get") =>
             exitKind' \in {"shutdown", "cancelled"}]_vars
    /\ [][(pc = "stop" /\ exitKind \in {"shutdown", "cancelled"}) =>
             pc' # "start"]_vars

\* The timer tasks that can still run: sleeping, waiting for the lock or
\* closing the handle under it.
LiveTimers == {t \in Jobs : timer[t] \in {"sleeping", "waiting", "closing"}}

\* No timer task is pending and the pool has no open handle.
Quiet ==
    /\ LiveTimers = {}
    /\ _browser = 0
    /\ \A h \in Jobs : hstate[h] # "open"

\* C21: in the teardown of run() and until _run is entered again no timer
\* task is pending, and there only the teardown itself closes and clears
\* the handle; once shutdown() has closed the queue and every accepted job
\* is marked done, the pool reaches a state without pending timer and
\* without open handle, and stays there.
C21_QuietAfterDrain ==
    /\ [](pc \in {"teardown", "stop", "start", "ended"} => LiveTimers = {})
    /\ [][(pc \in {"teardown", "stop", "start", "ended"}
             /\ (\/ _browser' # _browser
                 \/ \E h \in Jobs : hstate'[h] = "closed" /\ hstate[h] # "closed")) =>
               (pc = "teardown" /\ pc' = "stop" /\ _browser' = 0)]_vars
    /\ ((is_shutdown /\ unfinished = 0) ~> []Quiet)

\* C21 witness: after a served job and shutdown(), the supervisor has torn
\* down the handle the cancelled timer was scheduled for.
C21_Witness ==
    /\ is_shutdown /\ unfinished = 0 /\ joinState = "returned"
    /\ pc = "stop"
    /\ \E t \in Jobs : /\ timer[t] = "cancelled"
                       /\ hstate[timerBrowser[t]] = "closed"
                       /\ future[t] = "result"
    /\ Quiet

\* The steps in which the job in service ends with a PlaywrightError:
\* launch() or new_context() raises it, the action or goto() raised it and
\* the blocks are left, or closing the page or the context raises it.
PlaywrightErrorEnds ==
    \/ LaunchFail
    \/ PageFail
    \/ (exc \in Fatal /\ CloseContext(TRUE))
    \/ CloseContext(FALSE)

\* C22: a job that ends with a PlaywrightError gets it as its outcome, _run
\* is left by `break` towards the teardown and the restart, and the jobs
\* waiting in the queue stay there in their order.
C22_FatalErrorDeliveredAndRestart ==
    [][PlaywrightErrorEnds =>
         /\ future'[cur] = "exception"
         /\ pc' = "teardown" /\ exitKind' = "break"
         /\ queue' = queue]_vars

\* C23: a job whose navigation got a response that is not ok fails with
\* that error alone: _run goes on to the next get() with the handle it has.
C23_StatusErrorIsLocal ==
    [][(exc = "status" /\ CloseContext(TRUE)) =>
         /\ future'[cur] = "exception"
         /\ pc' = "get"
         /\ _browser' = _browser /\ hstate' = hstate]_vars

\* C24: a job whose action fails because the awaited data did not appear
\* (the wait timed out, or the page has no payload) fails alone: _run goes
\* on to the next get() with the handle it has, the queue is untouched.
C24_MissingDataIsLocal ==
    [][(exc \in {"exc", "timeout"} /\ CloseContext(TRUE)) =>
         /\ future'[cur] = "exception"
         /\ pc' = "get"
         /\ _browser' = _browser /\ hstate' = hstate
         /\ queue' = queue]_vars

\* C29: the end of a job never makes _run exit with an error of its own
\* (an exception raised while the outcome is written).
C29_OutcomeWriteNeverFails ==
    [][(cur # 0 /\ cur' = 0 /\ pc' = "teardown") => exitKind' # "error"]_vars

\* C25: when a job enters Browser.browser with no handle or with a handle
\* that reports disconnected, the old handle is closed and cleared and the
\* job goes to launch(); it reaches its context only with a handle that
\* was connected at the test or with the handle launched for it, whose
\* request count starts at 0; the handle it then works on is never a
\* closed or missing one.
C25_NoUseOfAbsentOrDisconnected ==
    /\ [][(pc \in {"get", "browser"} /\ pc' \in {"launch", "page"}) =>
            /\ (_browser = 0 \/ hstate[_browser] # "open") =>
                  /\ pc' = "launch" /\ _browser' = 0
                  /\ _browser # 0 => hstate'[_browser] = "closed"
            /\ pc' = "page" =>
                  /\ _browser # 0 /\ hstate[_browser] = "open"
                  /\ _browser' = _browser]_vars
    /\ [][(pc = "launch" /\ pc' = "page") =>
            /\ hstate[cur'] = "none" /\ hstate'[cur'] = "open"
            /\ _browser' = cur' /\ _requests' = 0]_vars
    /\ [](pc = "launch" => _browser = 0)
    /\ [](pc \in AcquiredPcs =>
            _browser # 0 /\ hstate[_browser] \in {"open", "disconnected"})

\* C25 witness: a job works on the handle launched for it after the handle
\* before, neither worn nor idle, was found disconnected and closed.
C25_Witness ==
    /\ pc = "page" /\ _browser = cur /\ _requests = 0
    /\ idled = {} /\ exitKind = "none"
    /\ \E h \in Jobs : /\ h < cur
                       /\ hstate[h] = "closed"
                       /\ served[h] < max_requests

\* C26: at most one timer task can still act and it is _restart_task; a
\* job that gets its handle leaves the timer created for it asleep for
\* that handle and no other timer pending; a cancelled timer stays
\* cancelled, and a timer task that ends closes and clears the handle if
\* it is the one the timer was created for and else touches no handle.
C26_TimerDebounced ==
    /\ [](LiveTimers \subseteq {_restart_task} /\ Cardinality(LiveTimers) <= 1)
    /\ [][(pc \in {"get", "browser", "launch"} /\ pc' = "page") =>
            /\ _restart_task' = cur'
            /\ timer'[cur'] = "sleeping"
            /\ timerBrowser'[cur'] = _browser'
            /\ \A t \in Jobs : (t # cur' /\ t \in LiveTimers) =>
                                  timer'[t] = "cancelled"]_vars
    /\ [][\A t \in Jobs :
            /\ timer[t] = "cancelled" => timer'[t] = "cancelled"
            /\ (timer[t] = "closing" /\ timer'[t] = "done") =>
                  IF _browser = timerBrowser[t]
                    THEN hstate'[_browser] = "closed" /\ _browser' = 0
                    ELSE hstate' = hstate /\ _browser' = _browser]_vars

\* C26 witness: a job that reuses the handle has cancelled the timer of
\* the job before it and its own timer sleeps for the same handle.
C26_Witness ==
    /\ pc \in AcquiredPcs /\ exitKind = "none"
    /\ _restart_task = cur /\ timer[cur] = "sleeping"
    /\ \E t \in Jobs : /\ t # cur
                       /\ timer[t] = "cancelled"
                       /\ timerBrowser[t] = timerBrowser[cur]
                       /\ timerBrowser[t] = _browser

\* C30 as stated: when a job releases the handle the idle period starts
\* anew, so no timer task is at that moment about to close the handle.
C30_IdleCountedFromRelease ==
    [][(cur # 0 /\ cur' = 0) => \A t \in Jobs : timer'[t] # "closing"]_vars

\* C30 amended: the timer runs from the acquisition.  While the job
\* operates on the handle no timer task closes it; the end of the job does
\* not reschedule the timer; a timer that expired during the job waits for
\* the lock and is handed it when the job releases it, for the handle the
\* job has just used.
C30_IdleCountedFromAcquisition ==
    /\ [](pc \in UsePcs => \A t \in Jobs : timer[t] # "closing")
    /\ [][(cur # 0 /\ cur' = 0) =>
            /\ _restart_task' = _restart_task
            /\ \A t \in Jobs :
                  /\ timer[t] = "sleeping" =>
                        timer'[t] \in {"sleeping", "cancelled"}
                  /\ (timer[t] = "waiting" /\ pc' = "get") =>
                        timer'[t] = "closing" /\ lockHolder' = t
                  /\ timer'[t] = "closing" =>
                        /\ timer[t] = "waiting" /\ t = cur
                        /\ timerBrowser[t] = _browser]_vars

\* C30 witness: the timer scheduled when the job in service acquired the
\* handle has expired during the job and waits for the lock the job holds.
C30_Witness ==
    /\ pc \in AcquiredPcs
    /\ timer[cur] = "waiting" /\ timerBrowser[cur] = _browser
    /\ lockHolder = WorkerId /\ InSeq(lockWaiters, cur)

----------------------------------------------------------------------------
(* Properties of the normalisation                                         *)

\* C10: when a day's surfaced slots are appended to a group's list whose
\* last window ends at the instant the first new slot starts, with equal
\* type and day status, the list grows by one less than the number of new
\* slots, and in place of the last window stands one window from the last
\* window's start to the first slot's end, of the same type and status; the
\* windows before it and the other new slots are as they were.
C10_BoundaryMerge ==
    [][(ystate = "loop" /\ ystate' = "loop" /\ ndays' = ndays + 1) =>
         LET acc == SlotsOf(group_id)
             new == get_slots(day')
             out == groups'[group_id]
             n == Len(acc)
         IN  (/\ acc # <<>>
              /\ new # <<>>
              /\ dt_end(acc[n]) = dt_start(new[1])
              /\ acc[n].type = new[1].type
              /\ acc[n].day_status = new[1].day_status) =>
                 /\ Len(out) = n + Len(new) - 1
                 /\ \A i \in 1..(n - 1) : out[i] = acc[i]
                 /\ dt_start(out[n]) = dt_start(acc[n])
                 /\ dt_end(out[n]) = dt_end(new[1])
                 /\ out[n].type = acc[n].type
                 /\ out[n].day_status = acc[n].day_status
                 /\ \A i \in 2..Len(new) : out[n + i - 1] = new[i]]_vars

\* C10 witness: the single window of a group runs from day 0, 00:00 to
\* day 1, 12:00 after the slot 00:00-12:00 of day 1 was joined to the
\* window 00:00-24:00 of day 0, itself the product of a merge of the two
\* halves of day 0 supplied under two day names.
C10_Witness ==
    /\ ystate = "loop"
    /\ day = [date |-> 1, status |-> "ScheduleApplies",
              slots |-> <<[start |-> 0, end |-> 720, type |-> "Definite"]>>]
    /\ Len(SlotsOf(group_id)) = 1
    /\ dt_start(SlotsOf(group_id)[1]) = 0
    /\ dt_end(SlotsOf(group_id)[1]) = DayMinutes + 720
    /\ ndays = 3

\* A step of the day loop that appended a day to the list of a known group.
DayAppended == ystate = "loop" /\ ystate' = "loop" /\ ndays' = ndays + 1

\* C11: when the last accumulated window and the first surfaced slot of the
\* next day touch but differ in slot type or day status, the day's slots are
\* appended and the last window stays as it was; every emergency window in
\* an output covers whole days only, so none has absorbed a scheduled slot.
C11_NoMergeAcrossClass ==
    /\ [](\A g \in DOMAIN groups : \A i \in 1..Len(groups[g]) :
              title(groups[g][i]) = "Emergency" =>
                  groups[g][i].start = 0 /\ groups[g][i].end = DayMinutes)
    /\ [][DayAppended =>
             LET acc == SlotsOf(group_id)
                 new == get_slots(day')
                 n == Len(acc)
             IN  (/\ acc # <<>>
                  /\ new # <<>>
                  /\ dt_end(acc[n]) = dt_start(new[1])
                  /\ \/ acc[n].type # new[1].type
                     \/ acc[n].day_status # new[1].day_status) =>
                     groups'[group_id] = acc \o new]_vars

\* C11 witness: a scheduled window ending at midnight is followed by the
\* emergency window of the next day, as two entries.
C11_Witness ==
    \E g \in DOMAIN groups : \E i \in 1..(Len(groups[g]) - 1) :
        /\ dt_end(groups[g][i]) = dt_start(groups[g][i + 1])
        /\ title(groups[g][i]) = "Scheduled"
        /\ title(groups[g][i + 1]) = "Emergency"

\* C12: a day with status EMERGENCY_SHUTDOWNS yields exactly one slot,
\* from the day's date + 0 min to the day's date + 1440 min, with the
\* emergency title, whatever slots the payload supplied for the day; the
\* group's list then ends with that window, appended or joined to the
\* window before it.
C12_EmergencyOverride ==
    /\ [](day.status = "EmergencyShutdowns" =>
             LET s == get_slots(day)
             IN  /\ Len(s) = 1
                 /\ dt_start(s[1]) = day.date * DayMinutes
                 /\ dt_end(s[1]) = day.date * DayMinutes + DayMinutes
                 /\ title(s[1]) = "Emergency")
    /\ [][(DayAppended /\ day'.status = "EmergencyShutdowns") =>
             LET acc == SlotsOf(group_id)
                 out == groups'[group_id]
                 last == out[Len(out)]
             IN  /\ Len(out) \in {Len(acc), Len(acc) + 1}
                 /\ Len(out) >= 1
                 /\ dt_end(last) = day'.date * DayMinutes + DayMinutes
                 /\ title(last) = "Emergency"
                 /\ Len(out) = Len(acc) + 1 =>
                        dt_start(last) = day'.date * DayMinutes]_vars

\* C12 witness: an emergency day supplied with a definite and a not-planned
\* slot gave the group its only window, the whole day.
C12_Witness ==
    /\ day.status = "EmergencyShutdowns"
    /\ \E i, k \in 1..Len(day.slots) :
           day.slots[i].type = "Definite" /\ day.slots[k].type = "NotPlanned"
    /\ group_id \in DOMAIN groups
    /\ Len(groups[group_id]) = 1
    /\ dt_start(groups[group_id][1]) = day.date * DayMinutes
    /\ dt_end(groups[group_id][1]) = (day.date + 1) * DayMinutes

\* Two emergency days of one group with consecutive dates, processed one
\* after the other: `day` is the first, day' the second.
EmergencyDayAfterEmergencyDay ==
    /\ DayAppended
    /\ day.status = "EmergencyShutdowns"
    /\ day'.status = "EmergencyShutdowns"
    /\ day'.date = day.date + 1

\* C13 (as claimed): when two consecutive days of a group are both
\* emergency days, the output holds both full-day windows as two entries.
C13_EmergencyDaysKeptApart ==
    [][EmergencyDayAfterEmergencyDay =>
         LET acc == SlotsOf(group_id)
             out == groups'[group_id]
             n == Len(acc)
         IN  /\ Len(out) = n + 1
             /\ dt_end(out[n]) = day'.date * DayMinutes
             /\ dt_start(out[n + 1]) = day'.date * DayMinutes
             /\ dt_end(out[n + 1]) = (day'.date + 1) * DayMinutes]_vars

\* C13 (amended): when two consecutive days of a group are both emergency
\* days, the second day adds no entry: the group's last window, which ended
\* with the first day, is replaced by one emergency window with the same
\* start that ends with the second day; the windows before it are kept.
C13_EmergencyDaysJoined ==
    [][EmergencyDayAfterEmergencyDay =>
         LET acc == SlotsOf(group_id)
             out == groups'[group_id]
             n == Len(acc)
         IN  /\ n >= 1
             /\ Len(out) = n
             /\ \A i \in 1..(n - 1) : out[i] = acc[i]
             /\ dt_end(acc[n]) = day'.date * DayMinutes
             /\ dt_start(out[n]) = dt_start(acc[n])
             /\ dt_start(out[n]) <= day.date * DayMinutes
             /\ dt_end(out[n]) = (day'.date + 1) * DayMinutes
             /\ title(out[n]) = "Emergency"]_vars

\* C13 witness: after the emergency days 0 and 1 the group has a single
\* window, from the start of day 0 to the end of day 1.
C13_Witness ==
    /\ day.status = "EmergencyShutdowns" /\ day.date = 1
    /\ ndays = 2
    /\ group_id \in DOMAIN groups
    /\ Len(groups[group_id]) = 1
    /\ dt_start(groups[group_id][1]) = 0
    /\ dt_end(groups[group_id][1]) = 2 * DayMinutes
    /\ title(groups[group_id][1]) = "Emergency"

\* The minutes covered by a list of windows or of supplied slots.
RECURSIVE Minutes(_)
Minutes(ws) ==
    IF ws = <<>> THEN 0
    ELSE (IF "date_end" \in DOMAIN Head(ws)
            THEN dt_end(Head(ws)) - dt_start(Head(ws))
            ELSE Head(ws).end - Head(ws).start) + Minutes(Tail(ws))

\* The minutes a day may surface: none for a waiting day, the whole day for
\* an emergency day, else those of its supplied slots of type Definite.
SurfacedMinutes(d) ==
    CASE d.status = "WaitingForSchedule" -> 0
      [] d.status = "EmergencyShutdowns" -> DayMinutes
      [] OTHER -> Minutes(SelectSeq(d.slots, LAMBDA r : r.type = "Definite"))

\* C14: no window of any group's output comes from a waiting day or has the
\* not-planned type; a waiting day leaves the group's windows as they were,
\* and every other day adds exactly the minutes of its definite slots (or
\* the whole day, for an emergency day), so no window, merged or not,
\* covers a waiting or a not-planned slot.
C14_WaitingExclusion ==
    /\ [](\A g \in DOMAIN groups : \A i \in 1..Len(groups[g]) :
              /\ groups[g][i].day_status \in {"ScheduleApplies", "EmergencyShutdowns"}
              /\ groups[g][i].type = "Definite")
    /\ [][DayAppended =>
             /\ Minutes(groups'[group_id])
                   = Minutes(SlotsOf(group_id)) + SurfacedMinutes(day')
             /\ day'.status = "WaitingForSchedule" =>
                   groups'[group_id] = SlotsOf(group_id)]_vars

\* C14 witness: a waiting day whose definite slot starts at the instant the
\* group's only window ends, and a not-planned slot after it, left that
\* window as it was.
C14_Witness ==
    /\ day.status = "WaitingForSchedule"
    /\ Len(day.slots) = 2
    /\ day.slots[1].type = "Definite" /\ day.slots[1].start = 0
    /\ day.slots[2].type = "NotPlanned"
    /\ group_id \in DOMAIN groups
    /\ Len(groups[group_id]) = 1
    /\ dt_end(groups[group_id][1]) = day.date * DayMinutes
    /\ dt_start(groups[group_id][1]) = day.date * DayMinutes - HalfDay

\* A list of windows is in chronological order and free of overlap.
Chronological(ws) ==
    \A i \in 1..(Len(ws) - 1) : dt_end(ws[i]) <= dt_start(ws[i + 1])

\* C15 (as claimed): for a payload whose days come in the order of DayName
\* and whose slots within each day are ordered and do not overlap, every
\* group's output is chronological: window[i].end <= window[i+1].start.
C15_ChronologicalByDayName ==
    slots_sorted => \A g \in DOMAIN groups : Chronological(groups[g])

\* C15 (amended): the same, for a payload whose days, in the order of
\* DayName, also carry strictly increasing dates within each group.
C15_ChronologicalByDate ==
    (slots_sorted /\ dates_ascending) =>
        \A g \in DOMAIN groups : Chronological(groups[g])

\* C15 witness: a returned output of an ordered payload in which a group
\* has a window of day 0 followed by a window joined across midnight.
C15_Witness ==
    /\ ystate = "returned"
    /\ slots_sorted /\ dates_ascending
    /\ \E g \in DOMAIN groups :
           /\ Len(groups[g]) = 2
           /\ groups[g][2].date_start < groups[g][2].date_end
           /\ dt_end(groups[g][1]) = dt_start(groups[g][2])

\* C16 (as claimed): every group's output is maximally merged: no two
\* consecutive windows of the same type and day status share a boundary,
\* two adjacent slots of one day included (stated here for payloads with
\* ordered slots and increasing dates).
C16_MaximallyMerged ==
    (slots_sorted /\ dates_ascending) =>
        \A g \in DOMAIN groups : \A i \in 1..(Len(groups[g]) - 1) :
            ~(/\ dt_end(groups[g][i]) = dt_start(groups[g][i + 1])
              /\ groups[g][i].type = groups[g][i + 1].type
              /\ groups[g][i].day_status = groups[g][i + 1].day_status)

\* C17 (as claimed): a payload with a key that is no Group makes the call
\* fail; it never returns a mapping.
C17_UnknownGroupRejected ==
    ystate = "returned" => visited \subseteq Group

\* C18 (as claimed): the returned mapping has a key for exactly the groups
\* present in the payload, a group without surfaced outage being mapped to
\* the empty sequence (stated here for payloads of known groups only).
C18_KeysAreGroupsPresent ==
    (ystate = "returned" /\ visited \subseteq Group) =>
        DOMAIN groups = visited

----------------------------------------------------------------------------
(* Properties of the scraping                                              *)

\* C19: on a page that shows the emergency text, execute() raises
\* EmergencyShutdown and DisconSchedule.fact is never read; a call of
\* planned_outages that gets this signal returns, and whatever it returns
\* for such a page maps every group to exactly one window with the
\* emergency title, from the start of today to 48 hours later.
C19_DtekEmergencyOverride ==
    /\ [](page.emergency => ~fact_read /\ got.kind # "data")
    /\ []((dpc = "returned" /\ page.emergency) =>
             /\ DOMAIN outages = Group
             /\ \A group \in Group :
                    /\ Len(outages[group]) = 1
                    /\ outages[group][1].title = "Emergency"
                    /\ outages[group][1].dt_start = today * DayMinutes
                    /\ outages[group][1].dt_end
                          = outages[group][1].dt_start + 48 * 60)
    /\ [][(dpc = "awaiting" /\ dpc' = "executed" /\ page.emergency
             /\ got'.kind # "PlaywrightError") =>
               got'.kind = "EmergencyShutdown"]_vars
    /\ [][(dpc = "executed" /\ got.kind = "EmergencyShutdown"
             /\ dpc' # "executed") => dpc' = "returned"]_vars

\* C19 witness: planned_outages returned for a page that shows the
\* emergency text and also carries a schedule with an outage hour.
C19_Witness ==
    /\ dpc = "returned"
    /\ page.emergency /\ page.has_fact
    /\ today = 1
    /\ \E i \in 1..Len(page.data) :
           page.data[i].g = "GPV1.1" /\ page.data[i].hours[1].state = "no"
----------------------------------------------------------------------------
(* Properties of the reduction of dtek.py                                  *)

\* The items of _parse_group's input that carry an outage, in their order.
OutageItems(data) ==
    SelectSeq(data, LAMBDA it : it.state \in {"no", "first", "second"})

\* C27: _parse_group returns one slot for every item whose state is the
\* full-hour outage, the first half or the second half, in the order of
\* the items, and none for the other items: for hour key h the full hour
\* gives the 60 minutes from dt + (h-1) h to dt + h h, the first half the
\* 30 minutes from dt + (h-1) h, the second half the 30 minutes up to
\* dt + h h.
C27_ParseGroup ==
    rpc = "parsed" =>
      LET items == OutageItems(parse_data)
      IN  /\ Len(parse_slots) = Len(items)
          /\ \A k \in 1..Len(items) :
                LET h == int(items[k].hour)
                    slot == parse_slots[k]
                    length == slot.dt_end - slot.dt_start
                IN  /\ items[k].state = "no" =>
                          /\ slot.dt_start = parse_dt + (h - 1) * 60
                          /\ slot.dt_end = parse_dt + h * 60
                          /\ length = 60
                    /\ items[k].state = "first" =>
                          slot.dt_start = parse_dt + (h - 1) * 60 /\ length = 30
                    /\ items[k].state = "second" =>
                          slot.dt_end = parse_dt + h * 60 /\ length = 30

\* C27 witness: _parse_group returned for items that are not in the order
\* of the hours, with a full hour, a second half and an hour without outage.
C27_Witness ==
    /\ rpc = "parsed"
    /\ Len(parse_data) = 3
    /\ parse_data[1] = [hour |-> "24", state |-> "second"]
    /\ parse_data[2].state = "yes"
    /\ parse_data[3] = [hour |-> "1", state |-> "no"]
    /\ Len(parse_slots) = 2

\* The minutes covered by the slots of a list.
Covered(l) == UNION {l[i].dt_start .. (l[i].dt_end - 1) : i \in 1..Len(l)}

\* No window of the list starts at the instant the one before it ends.
NoneTouching(l) == \A i \in 1..(Len(l) - 1) : l[i].dt_end # l[i + 1].dt_start

\* C28: for slots in chronological order, every _join_slots result covers
\* the minutes of its input, has no window that starts where the one
\* before ends, and is a fixed point of _join_slots; joining the list of
\* a group again with the slots that follow gives the join of all the
\* slots and leaves the windows before the last joined one as they were.
C28_JoinSlots ==
    /\ rpc \in {"joined", "rejoined"} =>
          /\ Covered(join_res) = Covered(join_a)
          /\ NoneTouching(join_res)
          /\ _join_slots(join_res) = join_res
    /\ rpc = "rejoined" =>
          /\ Covered(join_out) = Covered(join_a \o join_b)
          /\ NoneTouching(join_out)
          /\ _join_slots(join_out) = join_out
          /\ join_out = _join_slots(join_a \o join_b)
          /\ Len(join_out) >= Len(join_res)
          /\ \A k \in 1..(Len(join_res) - 1) : join_out[k] = join_res[k]
          /\ join_res # <<>> =>
                join_out[Len(join_res)].dt_start =
                    join_res[Len(join_res)].dt_start

\* C28 witness: slots were joined within the first list, and the second
\* join made one window across midnight out of the last window of the
\* first list and the first slot of the next.
C28_Witness ==
    /\ rpc = "rejoined"
    /\ Len(join_res) < Len(join_a)
    /\ join_b # <<>>
    /\ Len(join_out) < Len(join_res) + Len(join_b)
    /\ \E k \in 1..Len(join_out) :
          join_out[k].dt_start < DayMinutes /\ join_out[k].dt_end > DayMinutes
----------------------------------------------------------------------------
(* Waiting days                                                            *)

\* C31: the call on a payload and the call on the same payload without
\* its waiting days end alike: one raises only if the other does, and
\* else every group has the same windows in both, a group without entry
\* counting as an empty list.
C31_WaitingDaysWithoutEffect ==
    /\ (ystate = "raised") = raised_nw
    /\ ystate # "raised" => \A g \in GroupCodes : SlotsOf(g) = SlotsOfNw(g)
====
